---- MODULE Spec2Model ----
(***************************************************************************)
(* Model of the image-to-palette pipeline of BitNBuild's backend:          *)
(*   backend/image_to_palette.py  extract_palette                          *)
(*   backend/app.py               extract_palette_api (/api/extract)       *)
(*                                                                         *)
(* Conventions.                                                            *)
(*  - A colour is a triple <<r, g, b>> of integers.                        *)
(*  - A floating-point centroid is kept exactly, as a rational             *)
(*    [sum |-> <<sr, sg, sb>>, cnt |-> n] standing for sum / n per channel.*)
(*  - A Python string is a sequence of one-character strings, so that      *)
(*    formatting is modelled digit by digit and can be parsed back.        *)
(*  - Cluster indices are 0-based as in numpy; TLA+ sequences are 1-based. *)
(*  - Images are at most 200x200, so Image.thumbnail leaves them as they   *)
(*    are; an image is the flat row-major sequence of its pixels.          *)
(***************************************************************************)
EXTENDS Integers, Sequences, FiniteSets

\* ---------------------------------------------------------------- bounds
\* Largest number of pixels of an uploaded image.
MaxPixels == 4

\* Colours the pixels of the uploaded images are drawn from.
Colors == { <<255, 0, 1>>, <<252, 0, 1>>, <<0, 0, 255>>, <<12, 34, 56>> }

\* Values of num_colors a direct caller of extract_palette passes.
Requested == {2, 3, 4}

\* ------------------------------------------------------ program constants
\* image_to_palette.py:21  "Max 15 colors"
MaxColors == 15
\* image_to_palette.py:24  "Use at least 3 colors minimum"
MinColors == 3
\* app.py:131  extract_palette(file, num_colors=10)
ApiNumColors == 10

\* ---------------------------------------------------------------- helpers
Min(a, b) == IF a < b THEN a ELSE b
Max(a, b) == IF a > b THEN a ELSE b

\* Lexicographic order of two colours.
ColorLeq(a, b) ==
    \/ a[1] < b[1]
    \/ a[1] = b[1] /\ a[2] < b[2]
    \/ a[1] = b[1] /\ a[2] = b[2] /\ a[3] <= b[3]

\* The uploaded images: the pixel sequences of length 0..n over Colors, one
\* per multiset of pixels (the pipeline never looks at where a pixel lies).
Images(n) ==
    UNION { { s \in [1..m -> Colors] :
                \A i \in 1..(m - 1) : ColorLeq(s[i], s[i + 1]) }
            : m \in 0..n }

\* An uploaded file: undecodable bytes, or an encoded image.
Files == { [valid |-> FALSE, data |-> <<>>] }
           \cup { [valid |-> TRUE, data |-> d] : d \in Images(MaxPixels) }

\* np.unique(pixels, axis=0): the distinct rows.
Unique(px) == { px[i] : i \in DOMAIN px }

\* The cluster count without the cap by the number of distinct colours.
ActualNumColorsNoUnique(n, u) == Max(MinColors, Min(n, MaxColors))

\* min(num_colors, len(unique_pixels), 15) then max(3, .)
ActualNumColors(n, u) == Max(MinColors, Min(Min(n, u), MaxColors))

\* ------------------------------------------------------ KMeans (sklearn)
\* kmeans.fit(unique_pixels): clustering the distinct rows of px, in
\* np.unique's (lexicographic) order, instead of all the pixels.
UniqueRows(px) ==
    LET U == Unique(px)
    IN  CHOOSE s \in [1..Cardinality(U) -> U] :
            /\ \A a, b \in DOMAIN s : a # b => s[a] # s[b]
            /\ \A a \in 1..(Cardinality(U) - 1) : ColorLeq(s[a], s[a + 1])

\* kmeans.fit(pixels): the samples that are clustered are all the pixels.
FitInput(px) == px

\* Sum of channel ch over the pixels px[1..i] whose label is j.
RECURSIVE ChannelSum(_, _, _, _, _)
ChannelSum(px, lab, j, ch, i) ==
    IF i = 0 THEN 0
    ELSE ChannelSum(px, lab, j, ch, i - 1)
         + (IF lab[i] = j THEN px[i][ch] ELSE 0)

\* Number of the pixels px[1..i] whose label is j.
RECURSIVE Population(_, _, _)
Population(lab, j, i) ==
    IF i = 0 THEN 0
    ELSE Population(lab, j, i - 1) + (IF lab[i] = j THEN 1 ELSE 0)

\* The mean of cluster j's members, as an exact rational.
Mean(px, lab, j) ==
    [sum |-> << ChannelSum(px, lab, j, 1, Len(px)),
                ChannelSum(px, lab, j, 2, Len(px)),
                ChannelSum(px, lab, j, 3, Len(px)) >>,
     cnt |-> Population(lab, j, Len(px))]

\* A centroid that coincides with a sample.
AtSample(x) == [sum |-> x, cnt |-> 1]

Sq(a) == a * a

\* Squared Euclidean distance from sample x to centroid c, times c.cnt^2.
ScaledSqDist(x, c) ==
    Sq(c.cnt * x[1] - c.sum[1]) + Sq(c.cnt * x[2] - c.sum[2])
      + Sq(c.cnt * x[3] - c.sum[3])

\* x is strictly closer to centroid a than to centroid b.
Closer(x, a, b) ==
    ScaledSqDist(x, a) * Sq(b.cnt) < ScaledSqDist(x, b) * Sq(a.cnt)

\* The label of sample x: the first index among its nearest centroids
\* (the assignment step keeps the current label unless a later centroid is
\* strictly closer).
Nearest(x, centers, k) ==
    CHOOSE j \in 0..(k - 1) :
        \A i \in 0..(k - 1) :
            /\ i < j => Closer(x, centers[j], centers[i])
            /\ i > j => ~Closer(x, centers[i], centers[j])

\* The results KMeans(n_clusters = k).fit(px) can end with, for
\* Len(px) >= k: a labelling in which equal samples carry equal labels,
\* every centroid with members is the mean of its members, a centroid
\* without members coincides with one of the samples (more clusters than
\* distinct samples: "some clusters coincide"), and every sample carries the
\* label of its nearest centroid; a cluster stays without members only when
\* every sample coincides with its centroid (otherwise the library moves
\* the empty cluster onto the sample farthest from its centroid).  Which of
\* these fixed points the seeded initialisations reach is the library's
\* business, so each is possible.
KMeansFit(px, k) ==
    LET N  == Len(px)
        U  == Unique(px)
        Lab(f) == [i \in 1..N |-> f[px[i]]]
        Used(f) == { f[x] : x \in U }
        Cen(f, e) == [j \in 0..(k - 1) |->
                        IF j \in Used(f) THEN Mean(px, Lab(f), j)
                        ELSE AtSample(e[j])]
    IN  { [labels |-> Lab(f), centers |-> Cen(f, e)] :
            <<f, e>> \in
              { fe \in UNION { { <<g, h>> : h \in [(0..(k - 1)) \ Used(g) -> U] }
                               : g \in [U -> 0..(k - 1)] } :
                  /\ \A x \in U : Nearest(x, Cen(fe[1], fe[2]), k) = fe[1][x]
                  /\ Used(fe[1]) # 0..(k - 1) =>
                        \A x \in U :
                            ScaledSqDist(x, Cen(fe[1], fe[2])[fe[1][x]]) = 0 } }

\* float -> int of ndarray.astype(int): truncation toward zero.
Trunc(num, den) ==
    IF num >= 0 THEN num \div den ELSE -((-num) \div den)

\* Nearest integer of num / den >= 0, halves to even (np.rint).
Rint(num, den) ==
    LET q == num \div den
        r == num % den
    IN  IF 2 * r < den THEN q
        ELSE IF 2 * r > den THEN q + 1
        ELSE IF q % 2 = 0 THEN q ELSE q + 1

\* np.rint(cluster_centers_).astype(int), one centroid.
AsTypeIntRounded(c) ==
    << Rint(c.sum[1], c.cnt), Rint(c.sum[2], c.cnt), Rint(c.sum[3], c.cnt) >>

\* cluster_centers_.astype(int), one centroid.
AsTypeInt(c) ==
    << Trunc(c.sum[1], c.cnt), Trunc(c.sum[2], c.cnt), Trunc(c.sum[3], c.cnt) >>

\* ------------------------------------------------------------ ranking
\* np.bincount(labels): one count per index 0..max(labels).
RECURSIVE MaxOf(_, _)
MaxOf(s, i) == IF i = 0 THEN -1 ELSE Max(s[i], MaxOf(s, i - 1))

BinCount(lab) ==
    [j \in 0..MaxOf(lab, Len(lab)) |-> Population(lab, j, Len(lab))]

\* np.argsort(counts): the index orders that sort counts ascending.  The
\* default kind is quicksort, which is not stable: equal counts come in an
\* order that depends on the numpy build.
ArgSort(counts) ==
    LET D == DOMAIN counts
        n == Cardinality(D)
    IN  { s \in [1..n -> D] :
            /\ \A a, b \in 1..n : a # b => s[a] # s[b]
            /\ \A a \in 1..(n - 1) : counts[s[a]] <= counts[s[a + 1]] }

\* s without the [::-1]
NotReversed(s) == s

\* s[::-1]
Reversed(s) == [i \in 1..Len(s) |-> s[Len(s) + 1 - i]]

\* np.argsort(color_counts)[::-1]
SortedIndices(counts) == { Reversed(s) : s \in ArgSort(counts) }

\* ---------------------------------------------------------- formatting
DecChars == << "0", "1", "2", "3", "4", "5", "6", "7", "8", "9" >>
HexChars == << "0", "1", "2", "3", "4", "5", "6", "7", "8", "9",
               "a", "b", "c", "d", "e", "f" >>

\* format(n, "x") for n >= 0: lowercase hexadecimal digits.
RECURSIVE HexDigits(_)
HexDigits(n) ==
    IF n < 16 THEN << HexChars[n + 1] >>
    ELSE HexDigits(n \div 16) \o << HexChars[(n % 16) + 1] >>

\* f"{n:02x}": hexadecimal, zero-padded to a width of at least 2.
Format02x(n) ==
    LET d == HexDigits(n) IN IF Len(d) < 2 THEN << "0" >> \o d ELSE d

\* str.upper() on a string of '#', digits and a..f.
UpperChar(c) ==
    CASE c = "a" -> "A" [] c = "b" -> "B" [] c = "c" -> "C"
      [] c = "d" -> "D" [] c = "e" -> "E" [] c = "f" -> "F"
      [] OTHER -> c

Upper(s) == [i \in 1..Len(s) |-> UpperChar(s[i])]

\* f"{n}" for an integer n.
RECURSIVE NatDigits(_)
NatDigits(n) ==
    IF n < 10 THEN << DecChars[n + 1] >>
    ELSE NatDigits(n \div 10) \o << DecChars[(n % 10) + 1] >>

FormatInt(n) == IF n < 0 THEN << "-" >> \o NatDigits(-n) ELSE NatDigits(n)

\* f"#{r:02x}{g:02x}{b:02x}" without the .upper()
HexCodeLower(c) ==
    << "#" >> \o Format02x(c[1]) \o Format02x(c[2]) \o Format02x(c[3])

\* f"#{r:02x}{g:02x}{b:02x}".upper()
HexCode(c) ==
    Upper(<< "#" >> \o Format02x(c[1]) \o Format02x(c[2]) \o Format02x(c[3]))

\* f"rgb({r}, {g}, {b})"
RgbStr(c) ==
    << "r", "g", "b", "(" >> \o FormatInt(c[1]) \o << ",", " " >>
      \o FormatInt(c[2]) \o << ",", " " >> \o FormatInt(c[3]) \o << ")" >>

\* RGB_to_HSL without the step that adds 1 to a negative hue.
RGB_to_HSL_NoWrap(c) ==
    LET R == c[1]
        G == c[2]
        B == c[3]
        maximum == Max(R, Max(G, B))
        minimum == Min(R, Min(G, B))
        delta == maximum - minimum
        H0 == IF maximum = B THEN 4 * delta + (R - G)
              ELSE IF maximum = G THEN 2 * delta + (B - R)
              ELSE G - B
    IN  [ H |-> IF delta = 0 THEN << 0, 1 >> ELSE << H0, 6 * delta >>,
          S |-> IF delta = 0 THEN << 0, 1 >>
                ELSE IF maximum + minimum < 255
                     THEN << delta, maximum + minimum >>
                     ELSE << delta, 510 - maximum - minimum >>,
          L |-> << maximum + minimum, 510 >> ]

\* colour.RGB_to_HSL(color_rgb / 255.0): hue, saturation and lightness in
\* [0, 1], each an exact rational <<numerator, denominator>>.  With
\* delta = max - min:  H is (G - B) / 6 delta, replaced by
\* 1/3 + (B - R) / 6 delta where the maximum is G and then by
\* 2/3 + (R - G) / 6 delta where the maximum is B; 1 is added to a negative
\* H; S is delta / (max + min) for L < 0.5 and delta / (2 - max - min)
\* otherwise; H and S are 0 for delta = 0.
RGB_to_HSL(c) ==
    LET R == c[1]
        G == c[2]
        B == c[3]
        maximum == Max(R, Max(G, B))
        minimum == Min(R, Min(G, B))
        delta == maximum - minimum
        H0 == IF maximum = B THEN 4 * delta + (R - G)
              ELSE IF maximum = G THEN 2 * delta + (B - R)
              ELSE G - B
        H1 == IF H0 < 0 THEN H0 + 6 * delta ELSE H0
        H2 == IF H1 > 6 * delta THEN H1 - 6 * delta ELSE H1
    IN  [ H |-> IF delta = 0 THEN << 0, 1 >> ELSE << H2, 6 * delta >>,
          S |-> IF delta = 0 THEN << 0, 1 >>
                ELSE IF maximum + minimum < 255
                     THEN << delta, maximum + minimum >>
                     ELSE << delta, 510 - maximum - minimum >>,
          L |-> << maximum + minimum, 510 >> ]

\* f"{x:.0f}" for x = num / den >= 0: the nearest integer, halves to even.
RoundHalfEven(num, den) ==
    LET q == num \div den
        r == num % den
    IN  IF 2 * r < den THEN q
        ELSE IF 2 * r > den THEN q + 1
        ELSE IF q % 2 = 0 THEN q ELSE q + 1

FormatF0(num, den) == FormatInt(RoundHalfEven(num, den))

\* f"hsl({h*360:.0f}, {s*100:.0f}%, {l*100:.0f}%)"
HslStr(hsl) ==
    << "h", "s", "l", "(" >> \o FormatF0(360 * hsl.H[1], hsl.H[2])
      \o << ",", " " >> \o FormatF0(100 * hsl.S[1], hsl.S[2])
      \o << "%", ",", " " >> \o FormatF0(100 * hsl.L[1], hsl.L[2])
      \o << "%", ")" >>

\* The dict with "frequency": int(color_counts[i]), the count of cluster i
\* instead of the count of the cluster ranked i-th.
EntryUnranked(colors, counts, order, i) ==
    [ hex |-> HexCode(colors[i + 1]),
      rgb |-> RgbStr(colors[i + 1]),
      hsl |-> HslStr(RGB_to_HSL(colors[i + 1])),
      frequency |-> counts[i] ]

\* The dict appended for the colour at loop position i (0-based).
Entry(colors, counts, order, i) ==
    [ hex |-> HexCode(colors[i + 1]),
      rgb |-> RgbStr(colors[i + 1]),
      hsl |-> HslStr(RGB_to_HSL(colors[i + 1])),
      frequency |-> counts[order[i + 1]] ]

\* ------------------------------------------------------------------ state
VARIABLES
    pc,                       \* position of the request being served
    caller,                   \* "api" (extract_palette_api) or "direct"
    image_file,               \* the file object handed to extract_palette
    num_colors,               \* extract_palette's num_colors argument
    pixels,                   \* np.array(img).reshape(-1, 3)
    actual_num_colors,        \* n_clusters handed to KMeans
    cluster_centers,          \* kmeans.cluster_centers_ (rationals)
    labels,                   \* kmeans.labels_
    dominant_colors_rgb_int,  \* centroids after astype(int) / reordering
    color_counts,             \* np.bincount(labels)
    sorted_indices,           \* np.argsort(color_counts)[::-1]
    palette,                  \* the list being built by the loop
    result,                   \* extract_palette's return value
    error,                    \* the exception printed by the except clause
    response,                 \* the HTTP response of /api/extract
    color_rgb,                \* a colour handed to the loop body on its own
    color_entry               \* the dict the loop body makes of color_rgb

vars == << pc, caller, image_file, num_colors, pixels, actual_num_colors,
           cluster_centers, labels, dominant_colors_rgb_int, color_counts,
           sorted_indices, palette, result, error, response,
           color_rgb, color_entry >>

\* The state of one extraction call and of the route.
callvars == << pc, caller, image_file, num_colors, pixels, actual_num_colors,
               cluster_centers, labels, dominant_colors_rgb_int, color_counts,
               sorted_indices, palette, result, error, response >>

\* The state of the loop body run on a colour of its own.
bodyvars == << color_rgb, color_entry >>

NoFn == [j \in {} |-> 0]
NoFile == [valid |-> FALSE, data |-> <<>>]
None == [isNone |-> TRUE, items |-> <<>>]
List(p) == [isNone |-> FALSE, items |-> p]
NoEntry == [hex |-> <<>>, rgb |-> <<>>, hsl |-> <<>>, frequency |-> 0]
NoResponse == [status |-> 0, error |-> "", palette |-> <<>>, colors_found |-> 0]

\* The locals of extract_palette before the call has run.
FreshLocals ==
    /\ pixels' = <<>>
    /\ actual_num_colors' = 0
    /\ cluster_centers' = NoFn
    /\ labels' = <<>>
    /\ dominant_colors_rgb_int' = <<>>
    /\ color_counts' = NoFn
    /\ sorted_indices' = <<>>
    /\ palette' = <<>>
    /\ result' = None
    /\ error' = ""

InitCall ==
    /\ pc = "idle"
    /\ caller = "none"
    /\ image_file = NoFile
    /\ num_colors = 0
    /\ pixels = <<>>
    /\ actual_num_colors = 0
    /\ cluster_centers = NoFn
    /\ labels = <<>>
    /\ dominant_colors_rgb_int = <<>>
    /\ color_counts = NoFn
    /\ sorted_indices = <<>>
    /\ palette = <<>>
    /\ result = None
    /\ error = ""
    /\ response = NoResponse

Init ==
    /\ InitCall
    /\ color_rgb = << 0, 0, 0 >>
    /\ color_entry = NoEntry

Idle == pc = "idle"

ErrorResponse(code, msg) ==
    [status |-> code, error |-> msg, palette |-> <<>>, colors_found |-> 0]

\* -------------------------------------------------- /api/extract, entry
\* app.py:113-114  no 'file' part in the request
ApiNoFilePart ==
    /\ UNCHANGED bodyvars
    /\ Idle
    /\ pc' = "done"
    /\ caller' = "api"
    /\ image_file' = NoFile
    /\ num_colors' = 0
    /\ FreshLocals
    /\ response' = ErrorResponse(400, "No file part in the request")

\* app.py:125-126  the file part has an empty filename
ApiNoFilename ==
    /\ UNCHANGED bodyvars
    /\ Idle
    /\ \E f \in Files :
        /\ image_file' = f
    /\ pc' = "done"
    /\ caller' = "api"
    /\ num_colors' = 0
    /\ FreshLocals
    /\ response' = ErrorResponse(400, "No file selected")

\* app.py:127-128  the import of image_to_palette failed at start-up
ApiNoModule ==
    /\ UNCHANGED bodyvars
    /\ Idle
    /\ \E f \in Files :
        /\ image_file' = f
    /\ pc' = "done"
    /\ caller' = "api"
    /\ num_colors' = 0
    /\ FreshLocals
    /\ response' = ErrorResponse(500, "Image processing module not available on server")

\* app.py:130-131  basic_palette = extract_palette(file, num_colors=10)
ApiCallExtract ==
    /\ UNCHANGED bodyvars
    /\ Idle
    /\ \E f \in Files :
        /\ image_file' = f
    /\ pc' = "open"
    /\ caller' = "api"
    /\ num_colors' = ApiNumColors
    /\ FreshLocals
    /\ response' = NoResponse

\* A caller other than the route: extract_palette(image_file, num_colors)
DirectCall ==
    /\ UNCHANGED bodyvars
    /\ Idle
    /\ \E f \in Files, n \in Requested :
        /\ image_file' = f
        /\ num_colors' = n
    /\ pc' = "open"
    /\ caller' = "direct"
    /\ FreshLocals
    /\ response' = NoResponse

\* ------------------------------------------------------- extract_palette
\* image_to_palette.py:13-24  decode, flatten, count the distinct colours
\* and fix the number of clusters.
OpenImage ==
    /\ UNCHANGED bodyvars
    /\ pc = "open"
    /\ image_file.valid
    /\ pixels' = image_file.data
    /\ actual_num_colors' =
           ActualNumColors(num_colors, Cardinality(Unique(image_file.data)))
    /\ pc' = "fit"
    /\ UNCHANGED << caller, image_file, num_colors, cluster_centers, labels,
                    dominant_colors_rgb_int, color_counts, sorted_indices,
                    palette, result, error, response >>

\* image_to_palette.py:13, 66-68  Image.open raises on undecodable bytes.
OpenFail ==
    /\ UNCHANGED bodyvars
    /\ pc = "open"
    /\ ~image_file.valid
    /\ error' = "cannot identify image file"
    /\ result' = None
    /\ pc' = "returned"
    /\ UNCHANGED << caller, image_file, num_colors, pixels, actual_num_colors,
                    cluster_centers, labels, dominant_colors_rgb_int,
                    color_counts, sorted_indices, palette, response >>

\* image_to_palette.py:27-34  fit and convert the centroids to integers.
Fit ==
    /\ UNCHANGED bodyvars
    /\ pc = "fit"
    /\ Len(FitInput(pixels)) >= actual_num_colors
    /\ \E km \in KMeansFit(FitInput(pixels), actual_num_colors) :
        /\ cluster_centers' = km.centers
        /\ labels' = km.labels
        /\ dominant_colors_rgb_int' =
               [j \in 1..actual_num_colors |-> AsTypeInt(km.centers[j - 1])]
    /\ pc' = "rank"
    /\ UNCHANGED << caller, image_file, num_colors, pixels, actual_num_colors,
                    color_counts, sorted_indices, palette, result, error,
                    response >>

\* image_to_palette.py:33, 66-68  KMeans.fit raises ValueError when there
\* are fewer samples than clusters (a zero-pixel image included).
FitFail ==
    /\ UNCHANGED bodyvars
    /\ pc = "fit"
    /\ Len(FitInput(pixels)) < actual_num_colors
    /\ error' = "n_samples should be >= n_clusters"
    /\ result' = None
    /\ pc' = "returned"
    /\ UNCHANGED << caller, image_file, num_colors, pixels, actual_num_colors,
                    cluster_centers, labels, dominant_colors_rgb_int,
                    color_counts, sorted_indices, palette, response >>

\* image_to_palette.py:37-45  count, sort, reorder the colours.
Rank ==
    /\ UNCHANGED bodyvars
    /\ pc = "rank"
    /\ color_counts' = BinCount(labels)
    /\ \E order \in SortedIndices(BinCount(labels)) :
        /\ sorted_indices' = order
        /\ dominant_colors_rgb_int' =
               [i \in 1..Len(order) |-> dominant_colors_rgb_int[order[i] + 1]]
    /\ palette' = <<>>
    /\ pc' = "format"
    /\ UNCHANGED << caller, image_file, num_colors, pixels, actual_num_colors,
                    cluster_centers, labels, result, error, response >>

\* image_to_palette.py:46-62  one iteration of the loop.
FormatEntry ==
    /\ UNCHANGED bodyvars
    /\ pc = "format"
    /\ Len(palette) < Len(dominant_colors_rgb_int)
    /\ palette' = Append(palette,
                         Entry(dominant_colors_rgb_int, color_counts,
                               sorted_indices, Len(palette)))
    /\ UNCHANGED << pc, caller, image_file, num_colors, pixels,
                    actual_num_colors, cluster_centers, labels,
                    dominant_colors_rgb_int, color_counts, sorted_indices,
                    result, error, response >>

\* An except clause that hands back what the loop has built so far.
ExceptValuePartial(partial) == List(partial)

\* What the except clause returns.
ExceptValue(partial) == None

\* image_to_palette.py:46-62, 66-68  an exception raised inside the loop
\* (any Exception: the clause is a catch-all) ends the call.
FormatFail ==
    /\ UNCHANGED bodyvars
    /\ pc = "format"
    /\ Len(palette) < Len(dominant_colors_rgb_int)
    /\ error' = "error while formatting"
    /\ result' = ExceptValue(palette)
    /\ pc' = "returned"
    /\ UNCHANGED << caller, image_file, num_colors, pixels, actual_num_colors,
                    cluster_centers, labels, dominant_colors_rgb_int,
                    color_counts, sorted_indices, palette, response >>

\* image_to_palette.py:64  return palette
ReturnPalette ==
    /\ UNCHANGED bodyvars
    /\ pc = "format"
    /\ Len(palette) = Len(dominant_colors_rgb_int)
    /\ result' = List(palette)
    /\ pc' = "returned"
    /\ UNCHANGED << caller, image_file, num_colors, pixels, actual_num_colors,
                    cluster_centers, labels, dominant_colors_rgb_int,
                    color_counts, sorted_indices, palette, error, response >>

\* Python's "not basic_palette": None and the empty list are falsy.
Falsy(r) == r.isNone \/ r.items = <<>>

\* app.py:132-149  the route's answer to what extract_palette returned.
ApiRespond ==
    /\ UNCHANGED bodyvars
    /\ pc = "returned"
    /\ caller = "api"
    /\ response' =
         IF Falsy(result)
         THEN ErrorResponse(500, "Could not process the image")
         ELSE [status |-> 200, error |-> "", palette |-> result.items,
               colors_found |-> Len(result.items)]
    /\ pc' = "done"
    /\ UNCHANGED << caller, image_file, num_colors, pixels, actual_num_colors,
                    cluster_centers, labels, dominant_colors_rgb_int,
                    color_counts, sorted_indices, palette, result, error >>

\* The direct caller receives the return value.
DirectReturn ==
    /\ UNCHANGED bodyvars
    /\ pc = "returned"
    /\ caller = "direct"
    /\ pc' = "done"
    /\ UNCHANGED << caller, image_file, num_colors, pixels, actual_num_colors,
                    cluster_centers, labels, dominant_colors_rgb_int,
                    color_counts, sorted_indices, palette, result, error,
                    response >>

\* The call is over: its locals are discarded and the next request can come.
Finish ==
    /\ UNCHANGED bodyvars
    /\ pc = "done"
    /\ pc' = "idle"
    /\ caller' = "none"
    /\ image_file' = NoFile
    /\ num_colors' = 0
    /\ FreshLocals
    /\ response' = NoResponse

Next ==
    \/ ApiNoFilePart \/ ApiNoFilename \/ ApiNoModule \/ ApiCallExtract
    \/ DirectCall
    \/ OpenImage \/ OpenFail \/ Fit \/ FitFail \/ Rank
    \/ FormatEntry \/ FormatFail \/ ReturnPalette
    \/ ApiRespond \/ DirectReturn \/ Finish

Spec == Init /\ [][Next]_vars

\* ------------------------------------------- the loop body on its own
\* Channel values of the colours handed to the loop body on its own.
Channels == {0, 1, 2, 127, 128, 254, 255}

\* image_to_palette.py:47-62  the body of the loop, for one integer colour
\* of frequency 1.
FormatColor ==
    /\ color_entry = NoEntry
    /\ color_entry' =
           Entry(<< color_rgb >>, [j \in {0} |-> 1], << 0 >>, 0)
    /\ UNCHANGED << color_rgb, callvars >>

InitBody ==
    /\ InitCall
    /\ color_rgb \in Channels \X Channels \X Channels
    /\ color_entry = NoEntry

NextBody == FormatColor

SpecBody == InitBody /\ [][NextBody]_vars

\* ============================================================ properties
\* ------------------------------------------- reading the strings back
IsDecChar(c) == \E d \in 1..10 : DecChars[d] = c
DecValue(c) == (CHOOSE d \in 1..10 : DecChars[d] = c) - 1

\* re.findall(r"\d+", s) as integers: the maximal runs of decimal digits.
RECURSIVE Scan(_, _, _, _)
Scan(s, i, cur, out) ==
    IF i > Len(s)
    THEN IF cur >= 0 THEN Append(out, cur) ELSE out
    ELSE IF IsDecChar(s[i])
         THEN Scan(s, i + 1, (IF cur < 0 THEN 0 ELSE cur) * 10 + DecValue(s[i]), out)
         ELSE Scan(s, i + 1, -1, IF cur >= 0 THEN Append(out, cur) ELSE out)

IntsIn(s) == Scan(s, 1, -1, <<>>)

\* The decimal numeral of a natural number, without sign or padding.
RECURSIVE Numeral(_)
Numeral(n) ==
    IF n < 10 THEN << DecChars[n + 1] >>
    ELSE Numeral(n \div 10) \o << DecChars[(n % 10) + 1] >>

UpperHexChars == << "0", "1", "2", "3", "4", "5", "6", "7", "8", "9",
                    "A", "B", "C", "D", "E", "F" >>
IsUpperHexChar(c) == \E d \in 1..16 : UpperHexChars[d] = c
UpperHexValue(c) == (CHOOSE d \in 1..16 : UpperHexChars[d] = c) - 1

\* s matches ^#[0-9A-F]{6}$
IsHexCode(s) ==
    /\ Len(s) = 7
    /\ s[1] = "#"
    /\ \A i \in 2..7 : IsUpperHexChar(s[i])

\* The three channel values a hex code encodes.
HexChannels(s) ==
    [ch \in 1..3 |-> 16 * UpperHexValue(s[2 * ch]) + UpperHexValue(s[2 * ch + 1])]

\* s is "rgb(R, G, B)" for three unsigned decimal numerals.
IsRgbStr(s) ==
    LET v == IntsIn(s)
    IN  /\ Len(v) = 3
        /\ s = << "r", "g", "b", "(" >> \o Numeral(v[1]) \o << ",", " " >>
                 \o Numeral(v[2]) \o << ",", " " >> \o Numeral(v[3]) \o << ")" >>

\* s is "hsl(H, S%, L%)" for three unsigned decimal numerals.
IsHslStr(s) ==
    LET v == IntsIn(s)
    IN  /\ Len(v) = 3
        /\ s = << "h", "s", "l", "(" >> \o Numeral(v[1]) \o << ",", " " >>
                 \o Numeral(v[2]) \o << "%", ",", " " >> \o Numeral(v[3])
                 \o << "%", ")" >>

\* ------------------------------------------------ speaking of a call
\* extract_palette has returned a palette (not None).
Returned == pc \in {"returned", "done"} /\ ~result.isNone

\* Number of distinct colours of the (resized) image.
DistinctColors == Cardinality(Unique(pixels))

RECURSIVE FrequencySum(_, _)
FrequencySum(p, i) ==
    IF i = 0 THEN 0 ELSE FrequencySum(p, i - 1) + p[i].frequency

\* The centroid behind the palette entry at position i (1-based).
CentroidOf(i) == cluster_centers[sorted_indices[i]]

ClampByte(v) == IF v < 0 THEN 0 ELSE IF v > 255 THEN 255 ELSE v

\* Nearest integer of the rational num / den >= 0 (halves to even).
NearestInt(num, den) ==
    LET q == num \div den
        r == num % den
    IN  IF 2 * r < den THEN q
        ELSE IF 2 * r > den THEN q + 1
        ELSE IF q % 2 = 0 THEN q ELSE q + 1

\* ------------------------------------------------------------------ C1
\* C1 (as claimed): whenever extract_palette returns a palette, its length L
\* satisfies 3 <= L <= min(requested_colors, 15), for every image and every
\* requested_colors, values below 3 included.
C1_SizeBound ==
    Returned =>
        /\ 3 <= Len(result.items)
        /\ Len(result.items) <= Min(num_colors, 15)

C3_SingleColour ==
    (Returned /\ DistinctColors = 1 /\ Len(pixels) >= 3) =>
        /\ Len(result.items) = 3
        /\ \A i \in 1..Len(result.items) :
              /\ IsRgbStr(result.items[i].rgb)
              /\ \A ch \in 1..3 :
                    /\ IntsIn(result.items[i].rgb)[ch] - pixels[1][ch] <= 1
                    /\ pixels[1][ch] - IntsIn(result.items[i].rgb)[ch] <= 1
        /\ FrequencySum(result.items, Len(result.items)) = Len(pixels)

\* ------------------------------------------------------------------ C4
\* C4: in every returned palette the frequencies sum to the number of pixels
\* of the image.
C4_FrequencyConservation ==
    Returned => FrequencySum(result.items, Len(result.items)) = Len(pixels)

\* A palette of an image with repeated pixels: some entry stands for several.
C4_Witness ==
    /\ Returned
    /\ Len(pixels) >= 4
    /\ Len(result.items) >= 3
    /\ \E i \in 1..Len(result.items) : result.items[i].frequency >= 2

\* ------------------------------------------------------------------ C5
\* C5: in every returned palette the frequencies are non-increasing along
\* the palette.
C5_RankMonotone ==
    Returned =>
        \A i, j \in 1..Len(result.items) :
            i < j => result.items[i].frequency >= result.items[j].frequency

\* A palette whose first entry is not cluster 0 and whose frequencies differ.
C5_Witness ==
    /\ Returned
    /\ Len(result.items) >= 3
    /\ sorted_indices[1] # 0
    /\ result.items[1].frequency > result.items[Len(result.items)].frequency

\* ------------------------------------------------------------------ C6
\* C6: extract_palette returns either None or the complete palette, never a
\* part of it: after an exception the return value is None, a returned
\* palette has one entry with hex, rgb, hsl and frequency per ranked cluster,
\* and /api/extract answers a call that returned None with an error and no
\* palette, a call that returned a palette with that palette.
C6_NoPartialResult ==
    pc \in {"returned", "done"} =>
        /\ error # "" => result.isNone
        /\ ~result.isNone =>
              /\ Len(sorted_indices) >= 1
              /\ Len(result.items) = Len(sorted_indices)
              /\ \A i \in 1..Len(result.items) :
                    /\ DOMAIN result.items[i] = {"hex", "rgb", "hsl", "frequency"}
                    /\ IsHexCode(result.items[i].hex)
                    /\ IsRgbStr(result.items[i].rgb)
                    /\ IsHslStr(result.items[i].hsl)
                    /\ result.items[i].frequency = color_counts[sorted_indices[i]]
        /\ (pc = "done" /\ caller = "api" /\ num_colors = ApiNumColors) =>
              /\ response.status = 200 <=> ~result.isNone
              /\ response.status = 200 => response.palette = result.items
              /\ response.status # 200 =>
                    /\ response.palette = <<>>
                    /\ response.error # ""

\* The loop raised after it had built a part of the palette, and the route
\* answered with an error.
C6_Witness ==
    /\ pc = "done"
    /\ caller = "api"
    /\ error # ""
    /\ Len(palette) >= 1
    /\ result.isNone
    /\ response.status = 500

\* ------------------------------------------------------------------ C7
\* C7: every entry of a returned palette has a hex string '#' plus six
\* uppercase hexadecimal digits and an rgb string "rgb(R, G, B)" whose three
\* integers lie in 0..255 and are the channel values the hex string encodes.
C7_HexRgbAgree ==
    Returned =>
        \A i \in 1..Len(result.items) :
            /\ IsHexCode(result.items[i].hex)
            /\ IsRgbStr(result.items[i].rgb)
            /\ \A ch \in 1..3 :
                  /\ IntsIn(result.items[i].rgb)[ch] \in 0..255
                  /\ IntsIn(result.items[i].rgb)[ch]
                        = HexChannels(result.items[i].hex)[ch]

\* A returned entry whose hex string has letters: #0C2238 for (12, 34, 56).
C7_Witness ==
    /\ Returned
    /\ \E i \in 1..Len(result.items) :
          /\ result.items[i].hex = << "#", "0", "C", "2", "2", "3", "8" >>
          /\ IntsIn(result.items[i].rgb) = << 12, 34, 56 >>

\* ------------------------------------------------------------------ C8
\* C8 (as claimed): clusters of equal population are ranked by ascending
\* cluster index, the lower index first.
C8_TiesAscending ==
    \A i, j \in 1..Len(sorted_indices) :
        (i < j /\ color_counts[sorted_indices[i]] = color_counts[sorted_indices[j]])
            => sorted_indices[i] < sorted_indices[j]

\* C8 (amended): the ranking is a permutation of the cluster indices that
\* bincount covers, with non-increasing populations; among clusters of equal
\* population the order is the reverse of the one the ascending argsort
\* gave them, so a higher index can come first.
C8_RankingIsDescendingPermutation ==
    /\ Len(sorted_indices) = Cardinality(DOMAIN color_counts)
    /\ \A i \in 1..Len(sorted_indices) : sorted_indices[i] \in DOMAIN color_counts
    /\ \A i, j \in 1..Len(sorted_indices) :
          i < j =>
              /\ sorted_indices[i] # sorted_indices[j]
              /\ color_counts[sorted_indices[i]] >= color_counts[sorted_indices[j]]

\* Two clusters of equal population, the higher index ranked first.
C8_Witness ==
    /\ pc = "format"
    /\ \E i, j \in 1..Len(sorted_indices) :
          /\ i < j
          /\ color_counts[sorted_indices[i]] = color_counts[sorted_indices[j]]
          /\ color_counts[sorted_indices[i]] > 0
          /\ sorted_indices[i] > sorted_indices[j]

\* ------------------------------------------------------------------ C9
\* C9 (as claimed): every emitted channel is the centroid's channel rounded
\* to the nearest integer and clamped into 0..255.
C9_RoundedAndClamped ==
    Returned =>
        \A i \in 1..Len(result.items) : \A ch \in 1..3 :
            IntsIn(result.items[i].rgb)[ch]
                = ClampByte(NearestInt(CentroidOf(i).sum[ch], CentroidOf(i).cnt))

\* C9 (amended): every emitted channel is the centroid's channel truncated
\* to its integer part (127.6 becomes 127); the centroid being a mean of
\* pixels, the result lies in 0..255 without any clamping.
C9_Truncated ==
    Returned =>
        \A i \in 1..Len(result.items) : \A ch \in 1..3 :
            /\ IntsIn(result.items[i].rgb)[ch]
                  = CentroidOf(i).sum[ch] \div CentroidOf(i).cnt
            /\ IntsIn(result.items[i].rgb)[ch] \in 0..255

\* A returned entry whose centroid has a channel with a fractional part of
\* one half or more.
C9_Witness ==
    /\ Returned
    /\ \E i \in 1..Len(result.items) : \E ch \in 1..3 :
          2 * (CentroidOf(i).sum[ch] % CentroidOf(i).cnt) >= CentroidOf(i).cnt

\* ----------------------------------------------------------------- C10
\* C10 (as claimed): for every integer colour the hsl string has an integer
\* hue h with 0 <= h < 360 and integer percentages s and l in 0..100.
C10_HueBelow360 ==
    color_entry # NoEntry =>
        /\ IsHslStr(color_entry.hsl)
        /\ IntsIn(color_entry.hsl)[1] \in 0..359
        /\ IntsIn(color_entry.hsl)[2] \in 0..100
        /\ IntsIn(color_entry.hsl)[3] \in 0..100

\* C10 (amended): for every integer colour the hsl string has an integer hue
\* h with 0 <= h <= 360 (a hue that rounds to 360 is emitted as 360) and
\* integer percentages s and l in 0..100.
C10_HueUpTo360 ==
    color_entry # NoEntry =>
        /\ IsHslStr(color_entry.hsl)
        /\ IntsIn(color_entry.hsl)[1] \in 0..360
        /\ IntsIn(color_entry.hsl)[2] \in 0..100
        /\ IntsIn(color_entry.hsl)[3] \in 0..100

\* The colour (255, 0, 1), whose hue of 359.76 degrees is emitted as 360.
C10_Witness ==
    /\ color_rgb = << 255, 0, 1 >>
    /\ color_entry # NoEntry
    /\ IntsIn(color_entry.hsl) = << 360, 100, 50 >>
====
